---- MODULE Spec2Model ----
(***************************************************************************)
(* presto-exporter: the EMR cluster registry (aws/cluster_provider.go) and *)
(* the Prometheus collector (presto/collector.go).                         *)
(*                                                                         *)
(* Two specifications share the variables:                                 *)
(*   SpecRegistry  - ClusterProvider.Provide() against a model of the EMR  *)
(*                   API and of the go-cache item it stores;               *)
(*   SpecCollector - Collector.Collect() against any ClusterProvider and   *)
(*                   any coordinator responses.                            *)
(***************************************************************************)
EXTENDS Integers, Sequences, FiniteSets, TLC

VARIABLES
    cloud,      \* EMR: cluster id -> cluster (state, descriptor, instances)
    now,        \* wall clock, minutes
    cache,      \* go-cache item under cacheKey: [present, value, expiration]
    hist,       \* history: when and from what the cached item was built
    prov,       \* caller -> the frame of its Provide() call
    col         \* the frame of the Collect() call and what it has sent

vars == <<cloud, now, cache, hist, prov, col>>

----------------------------------------------------------------------------
(* Bounds *)

MaxClusters == 2        \* clusters the EMR account holds
MaxTime == 45           \* the clock stops here
TickStep == 15          \* minutes per clock step
PageSize == 1           \* clusters per ListClusters page

----------------------------------------------------------------------------
(* Program constants *)

CacheTTL == 30          \* c.cache.Set(cacheKey, masters, 30*time.Minute)
CoordinatorPort == 8889 \* fmt.Sprintf("http://%s:8889", master)

ListedState == "WAITING"
InstanceCollectionTypeInstanceGroup == "INSTANCE_GROUP"
InstanceCollectionTypeInstanceFleet == "INSTANCE_FLEET"
InstanceGroupTypeMaster == "MASTER"
InstanceFleetTypeMaster == "MASTER"

\* The zero value of ClusterInfo.Distribution, and the two declared variants.
ZeroDistribution == ""
DistSql == "sql"
DistDb == "db"

----------------------------------------------------------------------------
(* Strings whose characters matter are sequences of one-character strings. *)

UpperToLower ==
    [c \in {"T", "R", "I", "N", "O", "D", "B", "P", "E", "S", "A", "K"} |->
        CASE c = "T" -> "t" [] c = "R" -> "r" [] c = "I" -> "i" [] c = "N" -> "n"
          [] c = "O" -> "o" [] c = "D" -> "d" [] c = "B" -> "b" [] c = "P" -> "p"
          [] c = "E" -> "e" [] c = "S" -> "s" [] c = "A" -> "a" [] c = "K" -> "k"]

ToLower(s) ==
    [i \in 1..Len(s) |-> IF s[i] \in DOMAIN UpperToLower THEN UpperToLower[s[i]] ELSE s[i]]

AppTrino == <<"T", "r", "i", "n", "o">>
AppTrinoDbUpper == <<"T", "R", "I", "N", "O", "D", "B">>
AppTrinoDbMixed == <<"T", "r", "i", "n", "o", "D", "B">>
AppTrinoLower == <<"t", "r", "i", "n", "o">>
AppTrinox == <<"t", "r", "i", "n", "o", "x">>
AppPresto == <<"P", "r", "e", "s", "t", "o">>
AppSpark == <<"S", "p", "a", "r", "k">>

EngineNameA == <<"t", "r", "i", "n", "o">>
EngineNameB == <<"t", "r", "i", "n", "o", "d", "b">>

\* A variant that accepts every name starting with "trino".
isTrinoInstalledPrefix(descr) ==
    \E i \in 1..Len(descr.apps) :
        /\ Len(descr.apps[i]) >= Len(EngineNameA)
        /\ SubSeq(ToLower(descr.apps[i]), 1, Len(EngineNameA)) = EngineNameA

isTrinoInstalled(descr) ==
    \E i \in 1..Len(descr.apps) :
        \/ ToLower(descr.apps[i]) = EngineNameA
        \/ ToLower(descr.apps[i]) = EngineNameB

----------------------------------------------------------------------------
(* The EMR account.  An instance carries its own id, the id and type of    *)
(* its instance group (instance-group clusters) or the type of its fleet   *)
(* (fleet clusters), and its private address.                              *)

Inst(id, gid, gtype, ftype, addr) ==
    [id |-> id, groupId |-> gid, groupType |-> gtype, fleetType |-> ftype, addr |-> addr]

ClusterKinds ==
    { [name |-> "A", state |-> "WAITING", apps |-> <<AppSpark, AppTrino>>,
       topo |-> InstanceCollectionTypeInstanceFleet,
       instances |-> << Inst("ci-1", "", "", "CORE", "10.0.0.9"),
                        Inst("ci-2", "", "", "MASTER", "10.0.0.1"),
                        Inst("ci-3", "", "", "MASTER", "10.0.0.2") >>],
      [name |-> "B", state |-> "WAITING", apps |-> <<AppTrinoDbUpper>>,
       topo |-> InstanceCollectionTypeInstanceGroup,
       instances |-> << Inst("ci-4", "ig-1", "MASTER", "", "10.0.1.1"),
                        Inst("ci-5", "ig-2", "MASTER", "", "10.0.1.2"),
                        Inst("ci-6", "ig-3", "CORE", "", "10.0.1.9") >>],
      [name |-> "A", state |-> "WAITING", apps |-> <<AppPresto, AppTrinox>>,
       topo |-> InstanceCollectionTypeInstanceFleet,
       instances |-> << Inst("ci-7", "", "", "MASTER", "10.0.2.1") >>],
      [name |-> "B", state |-> "WAITING", apps |-> <<AppTrinoLower>>,
       topo |-> "OTHER",
       instances |-> << Inst("ci-8", "", "", "MASTER", "10.0.3.1") >>],
      [name |-> "B", state |-> "WAITING", apps |-> <<AppTrinoDbMixed>>,
       topo |-> InstanceCollectionTypeInstanceFleet,
       instances |-> << Inst("ci-9", "", "", "CORE", "10.0.4.9") >>],
      [name |-> "A", state |-> "WAITING", apps |-> <<AppTrino>>,
       topo |-> InstanceCollectionTypeInstanceGroup,
       instances |-> << Inst("ci-10", "ig-4", "CORE", "", "10.0.5.9") >>],
      [name |-> "B", state |-> "WAITING", apps |-> <<AppTrinoLower, AppSpark>>,
       topo |-> InstanceCollectionTypeInstanceFleet,
       instances |-> << Inst("ci-11", "", "", "MASTER", "10.0.6.1"),
                        Inst("ci-12", "", "", "CORE", "10.0.6.9") >>] }

ClusterIds == 1..MaxClusters

\* ListClusters with ClusterStates = states: the ids in listing order.
RECURSIVE ListFrom(_, _, _)
ListFrom(cl, states, id) ==
    IF id > MaxClusters THEN <<>>
    ELSE (IF cl[id].state \in states THEN <<id>> ELSE <<>>) \o ListFrom(cl, states, id + 1)

ListClusters(cl, states) == ListFrom(cl, states, 1)

\* DescribeCluster: the descriptor the pass keeps for a cluster.
DescribeCluster(cl, id) ==
    [id |-> id, name |-> cl[id].name, apps |-> cl[id].apps, topo |-> cl[id].topo]

\* ListInstances of a cluster under one filter; a field left "" is not set.
InstanceMatches(inst, f) ==
    /\ f.groupType = "" \/ inst.groupType = f.groupType
    /\ f.groupId = "" \/ inst.groupId = f.groupId
    /\ f.fleetType = "" \/ inst.fleetType = f.fleetType

ListInstances(cl, id, f) ==
    SelectSeq(cl[id].instances, LAMBDA inst : InstanceMatches(inst, f))

----------------------------------------------------------------------------
(* Master resolution.  failAt is the environment's choice of the EMR call  *)
(* of this resolution that returns an error (0: none does).                *)

ApiError == "emr api error"
NoMasterError == "no master instance found for cluster"
UnrecognizedError == "unrecognized instance type"

NoFilter == [groupType |-> "", groupId |-> "", fleetType |-> ""]

Resolved(addr, calls) == [ok |-> TRUE, master |-> addr, err |-> "", calls |-> calls]
Failed(err, calls) == [ok |-> FALSE, master |-> "", err |-> err, calls |-> calls]

\* A variant that does not ask for the master fleet.
getMasterInstanceForFleetAnyRole(cl, cluster, failAt) ==
    LET instances == ListInstances(cl, cluster.id, NoFilter)
    IN  IF failAt = 1 THEN Failed(ApiError, 1)
        ELSE IF Len(instances) = 0 THEN Failed(NoMasterError, 1)
        ELSE Resolved(instances[1].addr, 1)

getMasterInstanceForFleet(cl, cluster, failAt) ==
    LET instances == ListInstances(cl, cluster.id,
                         [NoFilter EXCEPT !.fleetType = InstanceFleetTypeMaster])
    IN  IF failAt = 1 THEN Failed(ApiError, 1)
        ELSE IF Len(instances) = 0 THEN Failed(NoMasterError, 1)
        ELSE Resolved(instances[1].addr, 1)

\* The loop of getMasterInstanceForNodeGroup from its k-th element on; calls
\* counts the EMR calls made so far.
RECURSIVE NodeGroupLoop(_, _, _, _, _, _)
NodeGroupLoop(cl, cluster, instanceGroups, k, calls, failAt) ==
    IF k > Len(instanceGroups) THEN Failed(NoMasterError, calls)
    ELSE IF failAt = calls + 1 THEN Failed(ApiError, calls + 1)
    ELSE LET group == instanceGroups[k]
             instances == ListInstances(cl, cluster.id,
                              [NoFilter EXCEPT !.groupId = group.id])
         IN  IF Len(instances) = 0
             THEN NodeGroupLoop(cl, cluster, instanceGroups, k + 1, calls + 1, failAt)
             ELSE Resolved(instances[1].addr, calls + 1)

getMasterInstanceForNodeGroup(cl, cluster, failAt) ==
    LET instanceGroups == ListInstances(cl, cluster.id,
                              [NoFilter EXCEPT !.groupType = InstanceGroupTypeMaster])
    IN  IF failAt = 1 THEN Failed(ApiError, 1)
        ELSE NodeGroupLoop(cl, cluster, instanceGroups, 1, 1, failAt)

getClusterMasterInstance(cl, cluster, failAt) ==
    IF cluster.topo = InstanceCollectionTypeInstanceGroup
    THEN getMasterInstanceForNodeGroup(cl, cluster, failAt)
    ELSE IF cluster.topo = InstanceCollectionTypeInstanceFleet
    THEN getMasterInstanceForFleet(cl, cluster, failAt)
    ELSE Failed(UnrecognizedError, 0)

\* The most EMR calls one resolution can make: one listing, one per instance.
MaxResolveCalls(cl, id) == 1 + Len(cl[id].instances)

----------------------------------------------------------------------------
(* Snapshots: maps from cluster name to ClusterInfo. *)

EmptyMap == [n \in {} |-> {}]

MapPut(m, k, v) == [n \in DOMAIN m \cup {k} |-> IF n = k THEN v ELSE m[n]]

HostOf(master) == <<"http://", master, ":", CoordinatorPort>>

\* trino.ClusterInfo{Host: ...}: Distribution keeps its zero value.
NewClusterInfo(master) == [Host |-> HostOf(master), Distribution |-> ZeroDistribution]

----------------------------------------------------------------------------
(* go-cache: an item is found until the clock has passed its expiration. *)

NoItem == [present |-> FALSE, value |-> EmptyMap, expiration |-> 0]

\* A variant with the comparison turned around.
CacheGetReversed(c, t) ==
    IF c.present /\ ~(t < c.expiration)
    THEN [found |-> TRUE, value |-> c.value]
    ELSE [found |-> FALSE, value |-> EmptyMap]

\* A variant that never lets an item expire.
CacheGetNeverExpires(c, t) ==
    IF c.present
    THEN [found |-> TRUE, value |-> c.value]
    ELSE [found |-> FALSE, value |-> EmptyMap]

CacheGet(c, t) ==
    IF c.present /\ ~(t > c.expiration)
    THEN [found |-> TRUE, value |-> c.value]
    ELSE [found |-> FALSE, value |-> EmptyMap]

CacheSet(value, t, d) == [present |-> TRUE, value |-> value, expiration |-> t + d]

----------------------------------------------------------------------------
(* ClusterProvider.Provide() *)

Callers == {1}

\* The frame of one Provide() call.  The fields after err are history kept
\* for the properties: the EMR calls made, where an EMR call failed, what the
\* cache held when the call started and how old it was, and, for the map the call works on or
\* returns, the clusters its pass was shown and the masters it resolved.
IdleFrame ==
    [pc |-> "idle", page |-> 0, clusters |-> <<>>, masters |-> EmptyMap, i |-> 0,
     ok |-> FALSE, value |-> EmptyMap, err |-> "",
     apiCalls |-> 0, failedIn |-> "", sawCached |-> FALSE, sawAge |-> 0,
     sawValue |-> EmptyMap, sawItem |-> NoItem, sawNow |-> 0,
     saw |-> {}, resolved |-> <<>>]

NoHist == [at |-> 0, saw |-> {}, resolved |-> <<>>]

ColIdle ==
    [pc |-> "idle", provideErr |-> FALSE, clusters |-> EmptyMap, todo |-> {},
     out |-> <<>>, reqs |-> <<>>, scraped |-> {}]

InitRegistry ==
    /\ cloud \in [ClusterIds -> ClusterKinds]
    /\ now = 0
    /\ cache = NoItem
    /\ hist = NoHist
    /\ prov = [p \in Callers |-> IdleFrame]
    /\ col = ColIdle

\* Lines 37-40: the cache lookup, and the return on a hit.
ProvideStart(p) ==
    /\ prov[p].pc = "idle"
    /\ LET got == CacheGet(cache, now)
           f == [IdleFrame EXCEPT !.sawCached = cache.present, !.sawAge = now - hist.at,
                                  !.sawValue = cache.value, !.sawItem = cache,
                                  !.sawNow = now]
       IN  prov' = [prov EXCEPT ![p] =
                IF got.found
                THEN [f EXCEPT !.pc = "returned", !.ok = TRUE, !.value = got.value,
                               !.saw = hist.saw, !.resolved = hist.resolved]
                ELSE [f EXCEPT !.pc = "listing", !.page = 1]]
    /\ UNCHANGED <<cloud, now, cache, hist, col>>

Min(a, b) == IF a < b THEN a ELSE b

\* The descriptors of one page that pass the filter, in listing order.
RECURSIVE PageClusters(_, _)
PageClusters(cl, ids) ==
    IF ids = <<>> THEN <<>>
    ELSE LET descr == DescribeCluster(cl, Head(ids))
         IN  (IF isTrinoInstalled(descr) THEN <<descr>> ELSE <<>>)
                 \o PageClusters(cl, Tail(ids))

\* Lines 76-101 and 56-60: one page of ListClustersPagesWithContext.  The
\* page request may fail, which ends the listing with its error; a failed
\* DescribeCluster leaves descr.Cluster nil and isTrinoInstalled dereferences
\* it (lines 86-90, 167).
ListClustersPage(p) ==
    /\ prov[p].pc = "listing"
    /\ LET f == prov[p]
           listed == ListClusters(cloud, {ListedState})
           first == (f.page - 1) * PageSize + 1
           last == Min(f.page * PageSize, Len(listed))
           ids == SubSeq(listed, first, last)
           calls == f.apiCalls + 1 + Len(ids)
       IN  \E outcome \in {"ok", "listError", "describeError"} :
             /\ outcome = "describeError" => Len(ids) > 0
             /\ prov' = [prov EXCEPT ![p] =
                  CASE outcome = "listError" ->
                         [f EXCEPT !.pc = "returned", !.ok = FALSE, !.err = ApiError,
                                   !.value = EmptyMap, !.apiCalls = f.apiCalls + 1,
                                   !.failedIn = "list"]
                    [] outcome = "describeError" ->
                         [f EXCEPT !.pc = "panicked", !.apiCalls = calls,
                                   !.failedIn = "describe"]
                    [] outcome = "ok" ->
                         [f EXCEPT !.clusters = f.clusters \o PageClusters(cloud, ids),
                                   !.apiCalls = calls,
                                   !.saw = f.saw \cup
                                       {[id |-> ids[k], name |-> cloud[ids[k]].name,
                                         state |-> cloud[ids[k]].state,
                                         apps |-> cloud[ids[k]].apps] : k \in 1..Len(ids)},
                                   !.page = f.page + 1,
                                   !.pc = IF last >= Len(listed) THEN "resolving"
                                          ELSE "listing",
                                   !.i = 1]]
    /\ UNCHANGED <<cloud, now, cache, hist, col>>

\* Two variants of the iteration: one goes on to the next cluster when a
\* master cannot be resolved, one deletes the cached item when it fails.
ResolveMasterVariant(p, skipFailed, dropCache) ==
    /\ prov[p].pc = "resolving"
    /\ prov[p].i <= Len(prov[p].clusters)
    /\ LET f == prov[p]
           cluster == f.clusters[f.i]
       IN  \E failAt \in 0..MaxResolveCalls(cloud, cluster.id) :
             LET r == getClusterMasterInstance(cloud, cluster, failAt)
                 g == [f EXCEPT !.apiCalls = f.apiCalls + r.calls,
                                !.resolved = Append(f.resolved,
                                    [id |-> cluster.id, name |-> cluster.name,
                                     topo |-> cluster.topo, r |-> r])]
             IN  /\ prov' = [prov EXCEPT ![p] =
                       IF r.ok
                       THEN [g EXCEPT !.masters = MapPut(f.masters, cluster.name,
                                                         NewClusterInfo(r.master)),
                                      !.i = f.i + 1]
                       ELSE IF skipFailed THEN [g EXCEPT !.i = f.i + 1]
                       ELSE [g EXCEPT !.pc = "returned", !.ok = FALSE, !.err = r.err,
                                      !.value = EmptyMap,
                                      !.failedIn = IF r.err = ApiError THEN "instances"
                                                   ELSE ""]]
                 /\ cache' = IF ~r.ok /\ dropCache THEN NoItem ELSE cache
    /\ UNCHANGED <<cloud, now, hist, col>>

ResolveMasterSkipsFailed(p) == ResolveMasterVariant(p, TRUE, FALSE)

ResolveMasterDropsCache(p) == ResolveMasterVariant(p, FALSE, TRUE)

\* Lines 62-71: one iteration of the loop over the qualifying clusters.
ResolveMaster(p) ==
    /\ prov[p].pc = "resolving"
    /\ prov[p].i <= Len(prov[p].clusters)
    /\ LET f == prov[p]
           cluster == f.clusters[f.i]
       IN  \E failAt \in 0..MaxResolveCalls(cloud, cluster.id) :
             LET r == getClusterMasterInstance(cloud, cluster, failAt)
                 g == [f EXCEPT !.apiCalls = f.apiCalls + r.calls,
                                !.resolved = Append(f.resolved,
                                    [id |-> cluster.id, name |-> cluster.name,
                                     topo |-> cluster.topo, r |-> r])]
             IN  prov' = [prov EXCEPT ![p] =
                   IF r.ok
                   THEN [g EXCEPT !.masters = MapPut(f.masters, cluster.name,
                                                     NewClusterInfo(r.master)),
                                  !.i = f.i + 1]
                   ELSE [g EXCEPT !.pc = "returned", !.ok = FALSE, !.err = r.err,
                                  !.value = EmptyMap,
                                  !.failedIn = IF r.err = ApiError THEN "instances"
                                               ELSE ""]]
    /\ UNCHANGED <<cloud, now, cache, hist, col>>

\* A variant that stores the map while the loop is still filling it.
ProvideStoreEarly(p) ==
    /\ prov[p].pc = "resolving"
    /\ cache' = CacheSet(prov[p].masters, now, CacheTTL)
    /\ hist' = [at |-> now, saw |-> prov[p].saw, resolved |-> prov[p].resolved]
    /\ prov' = [prov EXCEPT ![p] =
          [@ EXCEPT !.pc = "returned", !.ok = TRUE, !.value = prov[p].masters]]
    /\ UNCHANGED <<cloud, now, col>>

\* Lines 47-49 and 73: the pass is complete; store it and return it.
ProvideStore(p) ==
    /\ prov[p].pc = "resolving"
    /\ prov[p].i > Len(prov[p].clusters)
    /\ cache' = CacheSet(prov[p].masters, now, CacheTTL)
    /\ hist' = [at |-> now, saw |-> prov[p].saw, resolved |-> prov[p].resolved]
    /\ prov' = [prov EXCEPT ![p] =
          [@ EXCEPT !.pc = "returned", !.ok = TRUE, !.value = prov[p].masters]]
    /\ UNCHANGED <<cloud, now, col>>

\* The caller takes the result; the next call starts from a new frame.
ProvideReturn(p) ==
    /\ prov[p].pc = "returned"
    /\ prov' = [prov EXCEPT ![p] = IdleFrame]
    /\ UNCHANGED <<cloud, now, cache, hist, col>>

\* The environment: time passes, and a cluster starts or finishes work.
Tick ==
    /\ now + TickStep <= MaxTime
    /\ now' = now + TickStep
    /\ UNCHANGED <<cloud, cache, hist, prov, col>>

CloudChange ==
    /\ \E id \in ClusterIds :
         cloud' = [cloud EXCEPT ![id].state =
                      IF @ = "WAITING" THEN "RUNNING" ELSE "WAITING"]
    /\ UNCHANGED <<now, cache, hist, prov, col>>

NextRegistry ==
    \/ \E p \in Callers : ProvideStart(p)
    \/ \E p \in Callers : ListClustersPage(p)
    \/ \E p \in Callers : ResolveMaster(p)
    \/ \E p \in Callers : ProvideStore(p)
    \/ \E p \in Callers : ProvideReturn(p)
    \/ Tick
    \/ CloudChange

SpecRegistry == InitRegistry /\ [][NextRegistry]_vars

\* Provide() called from two goroutines at once while the cache is empty and
\* after it has been filled: nothing in Provide() orders the calls, and each
\* cache.Get and cache.Set is atomic under go-cache's lock.  The clock stands
\* still here; expiry is SpecRegistry's subject.
ConcurrentCallers == {1, 2}

\* The account holds fleet clusters with the engine, with and without a
\* master instance.
FleetKinds ==
    {k \in ClusterKinds :
        k.topo = InstanceCollectionTypeInstanceFleet /\ isTrinoInstalled(k)}

InitConcurrent ==
    /\ cloud \in [ClusterIds -> FleetKinds]
    /\ now = 0
    /\ cache = NoItem
    /\ hist = NoHist
    /\ prov = [p \in ConcurrentCallers |-> IdleFrame]
    /\ col = ColIdle

NextConcurrent ==
    \/ \E p \in ConcurrentCallers : ProvideStart(p)
    \/ \E p \in ConcurrentCallers : ListClustersPage(p)
    \/ \E p \in ConcurrentCallers : ResolveMaster(p)
    \/ \E p \in ConcurrentCallers : ProvideStore(p)
    \/ \E p \in ConcurrentCallers : ProvideReturn(p)
    \/ CloudChange

SpecConcurrent == InitConcurrent /\ [][NextConcurrent]_vars

----------------------------------------------------------------------------
(* The coordinator's HTTP API, as the collector sees it. *)

StatusOK == 200

Names == {"A", "B"}

HostFor(name) == IF name = "A" THEN HostOf("10.0.0.1") ELSE HostOf("10.0.1.1")

\* A variant value that no constant declares.
OtherDistribution == "other"

Distributions == {DistSql, DistDb, ZeroDistribution, OtherDistribution}

\* What a ClusterProvider can return: an error or not, and a map.
Snapshots ==
    UNION { { [n \in S |-> [Host |-> HostFor(n), Distribution |-> d[n]]] :
                d \in [S -> Distributions] } : S \in SUBSET Names }

ProvideResults == [err : BOOLEAN, clusters : Snapshots]

\* A JSON value is a number or a string; a body is a JSON object or not JSON.
Num(v) == [t |-> "num", v |-> v]
Str == [t |-> "str", v |-> 0]

BodyStats ==
    [json |-> TRUE,
     fields |-> [runningQueries |-> Num(3), blockedQueries |-> Num(7),
                 queuedQueries |-> Num(1), activeWorkers |-> Num(5),
                 runningDrivers |-> Num(2), reservedMemory |-> Num(1048576),
                 totalInputRows |-> Num(1000), totalInputBytes |-> Num(500000),
                 totalCpuTimeSecs |-> Num(12)]]
BodyErrorObject == [json |-> TRUE, fields |-> [message |-> Str]]
BodyWrongType == [json |-> TRUE, fields |-> [runningQueries |-> Str, activeWorkers |-> Num(5)]]
BodyNotJson == [json |-> FALSE, fields |-> EmptyMap]

Bodies == {BodyStats, BodyErrorObject, BodyWrongType, BodyNotJson}

\* A response: the transport failed (neterr), or it carries a status, a
\* Set-Cookie header ("" when absent) and a body, whose read may fail.
NetError ==
    [neterr |-> TRUE, status |-> 0, setCookie |-> "", body |-> BodyNotJson,
     readErr |-> FALSE]
Resp(status, cookie, body, readErr) ==
    [neterr |-> FALSE, status |-> status, setCookie |-> cookie, body |-> body,
     readErr |-> readErr]

StatsResponses ==
    {NetError} \cup {Resp(st, "", b, FALSE) : st \in {StatusOK, 500}, b \in Bodies}
               \cup {Resp(StatusOK, "", BodyStats, TRUE)}

LoginResponses ==
    {NetError} \cup {Resp(st, c, BodyNotJson, FALSE) :
                        st \in {StatusOK, 303}, c \in {"", "Trino-UI-Token=t1"}}

\* One scrape's responses: to GET /v1/cluster, POST /ui/login, GET /ui/api/stats.
Envs == [get : StatsResponses, login : LoginResponses, stats : StatsResponses]

----------------------------------------------------------------------------
(* type Response and json.Unmarshal into it *)

FieldKeys ==
    <<"runningQueries", "blockedQueries", "queuedQueries", "activeWorkers",
      "runningDrivers", "reservedMemory", "totalInputRows", "totalInputBytes",
      "totalCpuTimeSecs">>

FieldSet == {FieldKeys[k] : k \in 1..Len(FieldKeys)}

ZeroResponse == [key \in FieldSet |-> 0]

\* Unknown keys are ignored, absent keys leave the field zero, and a value of
\* the wrong type leaves its field zero and makes the decoding fail.
Unmarshal(body) ==
    IF ~body.json THEN [response |-> ZeroResponse, err |-> "invalid character"]
    ELSE [response |->
             [key \in FieldSet |->
                 IF key \in DOMAIN body.fields /\ body.fields[key].t = "num"
                 THEN body.fields[key].v ELSE 0],
          err |-> IF \E key \in FieldSet \cap DOMAIN body.fields :
                        body.fields[key].t # "num"
                  THEN "cannot unmarshal" ELSE ""]

----------------------------------------------------------------------------
(* The scrape of one cluster.  Each operator yields the Response, the error *)
(* ("" is nil) and the exchanges it made with the coordinator.              *)

Exchange(method, host, path, cookie, resp) ==
    [method |-> method, host |-> host, path |-> path, cookie |-> cookie, resp |-> resp]

Outcome(response, err, reqs) == [response |-> response, err |-> err, reqs |-> reqs]

\* A variant that sends the GET a second time when the first one fails.
statsFromPrestoDBRetrying(cluster, env) ==
    LET resp == env.get
        one == Exchange("GET", cluster.Host, "/v1/cluster", "", resp)
    IN  IF resp.neterr THEN Outcome(ZeroResponse, "get failed", <<one, one>>)
        ELSE IF resp.status # StatusOK THEN Outcome(ZeroResponse, "", <<one>>)
        ELSE IF resp.readErr THEN Outcome(ZeroResponse, "read failed", <<one>>)
        ELSE LET u == Unmarshal(resp.body)
             IN  Outcome(u.response, u.err, <<one>>)

\* Lines 142-165.  On a status other than 200 the err returned is the nil
\* err of the Get that succeeded.
statsFromPrestoDB(cluster, env) ==
    LET resp == env.get
        reqs == <<Exchange("GET", cluster.Host, "/v1/cluster", "", resp)>>
    IN  IF resp.neterr THEN Outcome(ZeroResponse, "get failed", reqs)
        ELSE IF resp.status # StatusOK THEN Outcome(ZeroResponse, "", reqs)
        ELSE IF resp.readErr THEN Outcome(ZeroResponse, "read failed", reqs)
        ELSE LET u == Unmarshal(resp.body)
             IN  Outcome(u.response, u.err, reqs)

\* A variant that does not look at the cookie.
loginUnchecked(cluster, env) ==
    LET resp == env.login
        reqs == <<Exchange("POST", cluster.Host, "/ui/login", "", resp)>>
    IN  IF resp.neterr THEN [cookie |-> "", err |-> "post failed", reqs |-> reqs]
        ELSE [cookie |-> resp.setCookie, err |-> "", reqs |-> reqs]

\* Lines 203-220.
login(cluster, env) ==
    LET resp == env.login
        reqs == <<Exchange("POST", cluster.Host, "/ui/login", "", resp)>>
    IN  IF resp.neterr THEN [cookie |-> "", err |-> "post failed", reqs |-> reqs]
        ELSE IF resp.setCookie = ""
        THEN [cookie |-> "", err |-> "no Set-Cookie header present in response",
              reqs |-> reqs]
        ELSE [cookie |-> resp.setCookie, err |-> "", reqs |-> reqs]

\* Lines 167-201.  The status of the stats response is not looked at.
statsFromPrestoSQL(cluster, env) ==
    LET l == login(cluster, env)
    IN  IF l.err # "" THEN Outcome(ZeroResponse, l.err, l.reqs)
        ELSE LET resp == env.stats
                 reqs == Append(l.reqs,
                            Exchange("GET", cluster.Host, "/ui/api/stats", l.cookie, resp))
             IN  IF resp.neterr THEN Outcome(ZeroResponse, "do failed", reqs)
                 ELSE IF resp.readErr THEN Outcome(ZeroResponse, "read failed", reqs)
                 ELSE LET u == Unmarshal(resp.body)
                      IN  IF u.err # "" THEN Outcome(ZeroResponse, u.err, reqs)
                          ELSE Outcome(u.response, "", reqs)

\* A variant whose default case scrapes the Direct way.
statisticsFromClusterDefaultDb(cluster, env) ==
    IF cluster.Distribution = DistSql THEN statsFromPrestoSQL(cluster, env)
    ELSE statsFromPrestoDB(cluster, env)

\* Lines 131-140.
statisticsFromCluster(cluster, env) ==
    IF cluster.Distribution = DistSql THEN statsFromPrestoSQL(cluster, env)
    ELSE IF cluster.Distribution = DistDb THEN statsFromPrestoDB(cluster, env)
    ELSE Outcome(ZeroResponse, "unsupported distribution", <<>>)

----------------------------------------------------------------------------
(* Collector.Collect() *)

Obs(metric, name, value) == [metric |-> metric, cluster |-> name, value |-> value]

\* A variant without the continue after up=0.
EmitWithoutContinue(name, response, err) ==
    (IF err # "" THEN <<Obs("up", name, 0)>> ELSE <<>>) \o
    << Obs("running_queries", name, response["runningQueries"]),
       Obs("blocked_queries", name, response["blockedQueries"]),
       Obs("queued_queries", name, response["queuedQueries"]),
       Obs("active_workers", name, response["activeWorkers"]),
       Obs("running_drivers", name, response["runningDrivers"]),
       Obs("reserved_memory", name, response["reservedMemory"]),
       Obs("total_input_rows", name, response["totalInputRows"]),
       Obs("total_input_bytes", name, response["totalInputBytes"]),
       Obs("total_cpu_time_secs", name, response["totalCpuTimeSecs"]),
       Obs("up", name, 1) >>

\* A variant with two fields exchanged.
EmitSwapped(name, response, err) ==
    IF err # "" THEN <<Obs("up", name, 0)>>
    ELSE << Obs("running_queries", name, response["runningQueries"]),
            Obs("blocked_queries", name, response["queuedQueries"]),
            Obs("queued_queries", name, response["blockedQueries"]),
            Obs("active_workers", name, response["activeWorkers"]),
            Obs("running_drivers", name, response["runningDrivers"]),
            Obs("reserved_memory", name, response["reservedMemory"]),
            Obs("total_input_rows", name, response["totalInputRows"]),
            Obs("total_input_bytes", name, response["totalInputBytes"]),
            Obs("total_cpu_time_secs", name, response["totalCpuTimeSecs"]),
            Obs("up", name, 1) >>

\* Lines 112-127: what one iteration sends on the channel.
Emit(name, response, err) ==
    IF err # "" THEN <<Obs("up", name, 0)>>
    ELSE << Obs("running_queries", name, response["runningQueries"]),
            Obs("blocked_queries", name, response["blockedQueries"]),
            Obs("queued_queries", name, response["queuedQueries"]),
            Obs("active_workers", name, response["activeWorkers"]),
            Obs("running_drivers", name, response["runningDrivers"]),
            Obs("reserved_memory", name, response["reservedMemory"]),
            Obs("total_input_rows", name, response["totalInputRows"]),
            Obs("total_input_bytes", name, response["totalInputBytes"]),
            Obs("total_cpu_time_secs", name, response["totalCpuTimeSecs"]),
            Obs("up", name, 1) >>

\* A variant that goes on after a failed Provide().
ClustersToVisitDespiteError(res) == DOMAIN res.clusters

\* Lines 101-107: the names the loop ranges over.
ClustersToVisit(res) == IF res.err THEN {} ELSE DOMAIN res.clusters

ColFrame(pc, res, todo) ==
    [pc |-> pc, provideErr |-> res.err, clusters |-> res.clusters, todo |-> todo,
     out |-> <<>>, reqs |-> <<>>, scraped |-> {}]

InitCollector ==
    /\ cloud = [id \in {} |-> {}]
    /\ now = 0
    /\ cache = NoItem
    /\ hist = NoHist
    /\ prov = [p \in {} |-> IdleFrame]
    /\ col = ColIdle

\* Lines 101-105: Provide(), and the return when it failed.
CollectStart ==
    /\ col.pc = "idle"
    /\ \E res \in ProvideResults :
         col' = IF ClustersToVisit(res) = {} THEN ColFrame("done", res, {})
                ELSE ColFrame("loop", res, ClustersToVisit(res))
    /\ UNCHANGED <<cloud, now, cache, hist, prov>>

\* Lines 107-128: one iteration, for the name the map range yields next.
Scrape ==
    /\ col.pc = "loop"
    /\ \E name \in col.todo, env \in Envs :
         LET r == statisticsFromCluster(col.clusters[name], env)
             each == [k \in 1..Len(r.reqs) |-> [cluster |-> name, x |-> r.reqs[k]]]
             todo == col.todo \ {name}
         IN  col' = [col EXCEPT !.todo = todo,
                                !.out = col.out \o Emit(name, r.response, r.err),
                                !.reqs = col.reqs \o each,
                                !.scraped = col.scraped \cup {name},
                                !.pc = IF todo = {} THEN "done" ELSE "loop"]
    /\ UNCHANGED <<cloud, now, cache, hist, prov>>

NextCollector == CollectStart \/ Scrape

SpecCollector == InitCollector /\ [][NextCollector]_vars

\* The two components side by side: a behaviour is one of the registry or
\* one of the collector.
InitComponents == InitRegistry \/ InitCollector

RegistrySteps == DOMAIN prov # {} /\ NextRegistry

CollectorSteps == DOMAIN prov = {} /\ NextCollector

NextComponents == RegistrySteps \/ CollectorSteps

SpecComponents == InitComponents /\ [][NextComponents]_vars

----------------------------------------------------------------------------
(* Properties of the collector, under SpecCollector *)

ObsOf(x) == SelectSeq(col.out, LAMBDA o : o.cluster = x)
ExchangesOf(x) == SelectSeq(col.reqs, LAMBDA e : e.cluster = x)
UpZero(x) == <<Obs("up", x, 0)>>

IsStatsGet(e) == e.x.method = "GET" /\ e.x.path \in {"/v1/cluster", "/ui/api/stats"}
IsLogin(e) == e.x.method = "POST" /\ e.x.path = "/ui/login"

\* The metric names with the JSON key each one reports.
GaugeKeys ==
    << <<"running_queries", "runningQueries">>, <<"blocked_queries", "blockedQueries">>,
       <<"queued_queries", "queuedQueries">>, <<"active_workers", "activeWorkers">>,
       <<"running_drivers", "runningDrivers">>, <<"reserved_memory", "reservedMemory">>,
       <<"total_input_rows", "totalInputRows">>, <<"total_input_bytes", "totalInputBytes">>,
       <<"total_cpu_time_secs", "totalCpuTimeSecs">> >>

BodyParses(body) ==
    /\ body.json
    /\ \A key \in FieldSet \cap DOMAIN body.fields : body.fields[key].t = "num"

FieldValue(body, key) == IF key \in DOMAIN body.fields THEN body.fields[key].v ELSE 0

\* The observations of a successful scrape of x that read `body`.
SuccessObs(x, body) ==
    [k \in 1..Len(GaugeKeys) + 1 |->
        IF k <= Len(GaugeKeys)
        THEN Obs(GaugeKeys[k][1], x, FieldValue(body, GaugeKeys[k][2]))
        ELSE Obs("up", x, 1)]

\* The failures of section 4.2: a network error, a status other than 200 for
\* the statistics request, a login response without a cookie, a body that
\* cannot be read or parsed.
ExchangeFailed(e) ==
    \/ e.x.resp.neterr
    \/ IsStatsGet(e) /\ e.x.resp.status # 200
    \/ IsLogin(e) /\ e.x.resp.setCookie = ""
    \/ IsStatsGet(e) /\ (e.x.resp.readErr \/ ~BodyParses(e.x.resp.body))

ScrapeFailed(x) == \E k \in 1..Len(ExchangesOf(x)) : ExchangeFailed(ExchangesOf(x)[k])

Supported(x) == col.clusters[x].Distribution \in {DistSql, DistDb}

ScrapeSucceeded(x) ==
    /\ Supported(x)
    /\ ~ScrapeFailed(x)
    /\ ObsOf(x) = SuccessObs(x, ExchangesOf(x)[Len(ExchangesOf(x))].x.resp.body)

\* C1: a failed scrape of X yields the one observation up=0 for X, the other
\* clusters get what their own responses give, and the loop visits every
\* cluster of the snapshot.
C1_FailureIsIsolated ==
    /\ \A x \in col.scraped :
         /\ ScrapeFailed(x) => ObsOf(x) = UpZero(x)
         /\ (Supported(x) /\ ~ScrapeFailed(x)) => ScrapeSucceeded(x)
    /\ (col.pc = "done" /\ ~col.provideErr) => col.scraped = DOMAIN col.clusters

\* C2: a Direct cluster whose GET /v1/cluster returns a status other than 200
\* gets up=0 and no gauge.
C2_DirectNon200IsFailure ==
    \A x \in col.scraped :
        (/\ col.clusters[x].Distribution = DistDb
         /\ \E k \in 1..Len(ExchangesOf(x)) :
              /\ ~ExchangesOf(x)[k].x.resp.neterr
              /\ ExchangesOf(x)[k].x.resp.status # 200)
            => ObsOf(x) = UpZero(x)

\* C3: an Authenticated cluster whose login succeeds and whose stats GET
\* returns a status other than 200 gets only up=0, whatever the body.
C3_AuthenticatedNon200IsFailure ==
    \A x \in col.scraped :
        (/\ col.clusters[x].Distribution = DistSql
         /\ \E k \in 1..Len(ExchangesOf(x)) :
              /\ ExchangesOf(x)[k].x.path = "/ui/api/stats"
              /\ ~ExchangesOf(x)[k].x.resp.neterr
              /\ ExchangesOf(x)[k].x.resp.status # 200)
            => ObsOf(x) = UpZero(x)

\* C7: a login response without Set-Cookie fails the scrape (up=0) and no
\* stats GET follows it; every stats GET comes after a login response of the
\* same scrape that carried a cookie, and carries that cookie.
C7_NoStatsGetWithoutCookie ==
    /\ \A i \in 1..Len(col.reqs) :
         col.reqs[i].x.path = "/ui/api/stats"
             => /\ i > 1
                /\ IsLogin(col.reqs[i - 1])
                /\ col.reqs[i - 1].cluster = col.reqs[i].cluster
                /\ ~col.reqs[i - 1].x.resp.neterr
                /\ col.reqs[i - 1].x.resp.setCookie # ""
                /\ col.reqs[i].x.cookie = col.reqs[i - 1].x.resp.setCookie
    /\ \A x \in col.scraped :
         (\E k \in 1..Len(ExchangesOf(x)) :
             /\ IsLogin(ExchangesOf(x)[k])
             /\ ~ExchangesOf(x)[k].x.resp.neterr
             /\ ExchangesOf(x)[k].x.resp.setCookie = "")
            => /\ ObsOf(x) = UpZero(x)
               /\ \A k \in 1..Len(ExchangesOf(x)) :
                    ExchangesOf(x)[k].x.path # "/ui/api/stats"

C7_Witness ==
    \E x, y \in col.scraped :
        /\ \E k \in 1..Len(ExchangesOf(x)) :
             /\ IsLogin(ExchangesOf(x)[k])
             /\ ~ExchangesOf(x)[k].x.resp.neterr
             /\ ExchangesOf(x)[k].x.resp.setCookie = ""
        /\ \E k \in 1..Len(ExchangesOf(y)) :
             /\ ExchangesOf(y)[k].x.path = "/ui/api/stats"
             /\ ExchangesOf(y)[k].x.cookie # ""

\* C8: when Provide() fails, Collect() sends no observation and makes no
\* HTTP request.
C8_FailedProvideEmitsNothing ==
    col.provideErr => (col.out = <<>> /\ col.reqs = <<>> /\ col.scraped = {})

C8_Witness ==
    col.pc = "done" /\ col.provideErr /\ DOMAIN col.clusters # {}

\* The metrics of the nine gauges.
GaugeNames == {GaugeKeys[k][1] : k \in 1..Len(GaugeKeys)}

CountObs(x, metric) ==
    Len(SelectSeq(col.out, LAMBDA o : o.cluster = x /\ o.metric = metric))

UpValues(x) == {col.out[k].value : k \in {j \in 1..Len(col.out) :
                    col.out[j].cluster = x /\ col.out[j].metric = "up"}}

\* C16: when Provide() succeeds, each cluster of the snapshot gets exactly
\* one up observation, 0 or 1, and each of its nine gauges once if and only
\* if up is 1; no observation names a cluster outside the snapshot.
C16_OneUpAndGaugesIffUp ==
    ~col.provideErr
        => /\ \A x \in col.scraped :
                /\ CountObs(x, "up") = 1
                /\ UpValues(x) \subseteq {0, 1}
                /\ \A g \in GaugeNames :
                     CountObs(x, g) = IF UpValues(x) = {1} THEN 1 ELSE 0
           /\ \A k \in 1..Len(col.out) :
                /\ col.out[k].cluster \in DOMAIN col.clusters
                /\ col.out[k].cluster \in col.scraped
                /\ col.out[k].metric \in GaugeNames \cup {"up"}
           /\ col.pc = "done" => col.scraped = DOMAIN col.clusters

C16_Witness ==
    /\ col.pc = "done" /\ ~col.provideErr
    /\ \E x, y \in col.scraped : UpValues(x) = {1} /\ UpValues(y) = {0}

\* C18: on a successful scrape each gauge carries the value of its own JSON
\* field and the name of the cluster the body came from, and the two
\* variants decode the same body to the same values.
LastBody(x) == ExchangesOf(x)[Len(ExchangesOf(x))].x.resp.body

Scraped200(x) == Supported(x) /\ ~ScrapeFailed(x)

GaugeValue(x, metric) ==
    LET hits == SelectSeq(col.out, LAMBDA o : o.cluster = x /\ o.metric = metric)
    IN  IF Len(hits) = 1 THEN hits[1].value ELSE -1

C18_GaugesCarryOwnFields ==
    /\ \A x \in col.scraped :
         Scraped200(x)
            => \A k \in 1..Len(GaugeKeys) :
                 GaugeValue(x, GaugeKeys[k][1]) = FieldValue(LastBody(x), GaugeKeys[k][2])
    /\ \A x, y \in col.scraped :
         (Scraped200(x) /\ Scraped200(y) /\ LastBody(x) = LastBody(y))
            => \A g \in GaugeNames : GaugeValue(x, g) = GaugeValue(y, g)

C18_Witness ==
    \E x, y \in col.scraped :
        /\ col.clusters[x].Distribution = DistDb
        /\ col.clusters[y].Distribution = DistSql
        /\ Scraped200(x) /\ Scraped200(y)
        /\ LastBody(x) = BodyStats /\ LastBody(y) = BodyStats

\* C20: an entry whose variant is neither declared one, the unset one
\* included, causes no HTTP request and gets only up=0, and the loop goes on
\* to the other clusters.
C20_UnknownVariantIsDown ==
    /\ \A x \in col.scraped :
         ~Supported(x) => (ExchangesOf(x) = <<>> /\ ObsOf(x) = UpZero(x))
    /\ (col.pc = "done" /\ ~col.provideErr) => col.scraped = DOMAIN col.clusters

C20_Witness ==
    \E x, y \in col.scraped :
        /\ col.clusters[x].Distribution = ZeroDistribution
        /\ Supported(y)
        /\ col.out[1].cluster = x
        /\ Len(ExchangesOf(y)) > 0

----------------------------------------------------------------------------
(* Properties of the registry, under SpecRegistry *)

FreshnessWindow == 30

Returned(p) == prov[p].pc = "returned"

\* C4: a Provide() call that starts while the cached snapshot is younger than
\* the freshness window makes no EMR call and returns the stored mapping
\* itself, with no error.
C4_FreshCacheIsServed ==
    \A p \in Callers :
        (Returned(p) /\ prov[p].sawCached /\ prov[p].sawAge < FreshnessWindow)
            => /\ prov[p].ok
               /\ prov[p].err = ""
               /\ prov[p].value = prov[p].sawValue
               /\ prov[p].apiCalls = 0

C4_Witness ==
    \E p \in Callers :
        /\ Returned(p) /\ prov[p].sawCached
        /\ prov[p].sawAge > 0 /\ prov[p].sawAge < FreshnessWindow
        /\ prov[p].ok /\ DOMAIN prov[p].value # {}
        /\ \E id \in ClusterIds : cloud[id].state # "WAITING"

\* C5: an EMR error in listing, describing or instance enumeration makes
\* Provide() return an error and no snapshot.
C5_ApiErrorIsReturned ==
    \A p \in Callers :
        prov[p].failedIn # ""
            => /\ Returned(p)
               /\ ~prov[p].ok
               /\ prov[p].err # ""
               /\ prov[p].value = EmptyMap

EqualFold(a, b) == ToLower(a) = ToLower(b)

HasEngine(apps) ==
    \E i \in 1..Len(apps) :
        EqualFold(apps[i], EngineNameA) \/ EqualFold(apps[i], EngineNameB)

\* Every entry of snapshot m comes from a cluster that the pass with history
\* (saw, resolved) was shown in state WAITING with the engine installed.
EntriesQualify(m, saw, resolved) ==
    \A n \in DOMAIN m :
        \E k \in 1..Len(resolved) :
            /\ resolved[k].name = n
            /\ resolved[k].r.ok
            /\ m[n].Host = HostOf(resolved[k].r.master)
            /\ \E c \in saw :
                 /\ c.id = resolved[k].id
                 /\ c.name = n
                 /\ c.state = "WAITING"
                 /\ HasEngine(c.apps)

\* C6: every entry of every snapshot Provide() returns, and of the cached
\* one, belongs to a cluster listed in state WAITING whose applications
\* include one of the two engine names, compared ignoring case.
C6_OnlyEngineClusters ==
    /\ \A p \in Callers :
         (Returned(p) /\ prov[p].ok)
             => EntriesQualify(prov[p].value, prov[p].saw, prov[p].resolved)
    /\ cache.present => EntriesQualify(cache.value, hist.saw, hist.resolved)

C6_Witness ==
    \E p \in Callers :
        /\ Returned(p) /\ prov[p].ok
        /\ DOMAIN prov[p].value # {}
        /\ \E c \in prov[p].saw : ~HasEngine(c.apps)

\* C9: every entry a discovery pass puts into the snapshot has the URL
\* http://<resolved master>:8889 and the Authenticated variant.
C9_EntriesAreAuthenticated ==
    \A p \in Callers :
        \A n \in DOMAIN prov[p].masters :
            /\ \E k \in 1..Len(prov[p].resolved) :
                 /\ prov[p].resolved[k].name = n
                 /\ prov[p].resolved[k].r.ok
                 /\ prov[p].masters[n].Host
                       = <<"http://", prov[p].resolved[k].r.master, ":", 8889>>
            /\ prov[p].masters[n].Distribution = DistSql

\* The instances of the master instance groups, in listing order.
MasterGroupInstances(cl, id) ==
    SelectSeq(cl[id].instances, LAMBDA inst : inst.groupType = "MASTER")

\* C10: for an instance-group cluster the resolution yields the first
\* instance's address of the first master group that has an instance, and
\* fails with no-master-found only if no master group has one.
C10_FirstNonEmptyGroup ==
    \A p \in Callers :
        \A k \in 1..Len(prov[p].resolved) :
            LET x == prov[p].resolved[k]
                expected == MasterGroupInstances(cloud, x.id)
            IN  (x.topo = "INSTANCE_GROUP" /\ x.r.err # ApiError)
                    => /\ Len(expected) > 0
                          => (x.r.ok /\ x.r.master = expected[1].addr)
                       /\ x.r.err = NoMasterError => Len(expected) = 0

\* The instances of the master fleet, in the order ListInstances gives them.
MasterFleetInstances(cl, id) ==
    SelectSeq(cl[id].instances, LAMBDA inst : inst.fleetType = "MASTER")

\* C11: for a fleet cluster the resolution fails with no-master-found when
\* the master fleet has no instance, and otherwise yields the address of the
\* first instance of the master fleet.
C11_FleetFirstInstance ==
    \A p \in Callers :
        \A k \in 1..Len(prov[p].resolved) :
            LET x == prov[p].resolved[k]
                expected == MasterFleetInstances(cloud, x.id)
            IN  (x.topo = "INSTANCE_FLEET" /\ x.r.err # ApiError)
                    => IF Len(expected) = 0
                       THEN ~x.r.ok /\ x.r.err = NoMasterError
                       ELSE x.r.ok /\ x.r.master = expected[1].addr

C11_Witness ==
    \E p \in Callers :
        \E j, k \in 1..Len(prov[p].resolved) :
            /\ prov[p].resolved[j].topo = "INSTANCE_FLEET"
            /\ prov[p].resolved[j].r.ok
            /\ cloud[prov[p].resolved[j].id].instances[1].fleetType # "MASTER"
            /\ prov[p].resolved[k].topo = "INSTANCE_FLEET"
            /\ prov[p].resolved[k].r.err = NoMasterError

\* C14: a Provide() call whose pass fails leaves the cached item as it was
\* when the call started, and returns the error with no result.
C14_FailedPassKeepsCache ==
    \A p \in Callers :
        (Returned(p) /\ ~prov[p].ok)
            => /\ cache = prov[p].sawItem
               /\ prov[p].value = EmptyMap
               /\ prov[p].err # ""

C14_Witness ==
    \E p \in Callers :
        /\ Returned(p) /\ ~prov[p].ok
        /\ prov[p].sawItem.present
        /\ DOMAIN prov[p].sawItem.value # {}

\* C15: a qualifying cluster of unrecognized topology, or without a
\* resolvable master, fails the whole pass: Provide() returns that error,
\* and the clusters resolved before it are neither returned nor cached.
C15_OneBadClusterFailsPass ==
    \A p \in Callers :
        \A k \in 1..Len(prov[p].resolved) :
            prov[p].resolved[k].r.err \in {UnrecognizedError, NoMasterError}
                => /\ k = Len(prov[p].resolved)
                   /\ Returned(p)
                   /\ ~prov[p].ok
                   /\ prov[p].err = prov[p].resolved[k].r.err
                   /\ prov[p].value = EmptyMap
                   /\ cache = prov[p].sawItem

C15_Witness ==
    \E p \in Callers :
        /\ Len(prov[p].resolved) >= 2
        /\ prov[p].resolved[1].r.ok
        /\ prov[p].resolved[2].r.err = UnrecognizedError
        /\ Returned(p)

\* C19 as stated: once the cached snapshot has reached the age of the
\* window, the next Provide() call performs a new discovery pass.
C19_ReachedAgeIsRediscovered ==
    \A p \in Callers :
        (Returned(p) /\ prov[p].sawCached /\ prov[p].sawAge >= FreshnessWindow)
            => prov[p].apiCalls > 0

\* C19 as amended: Provide() serves the cache only up to the age of the
\* window; a call that finds the snapshot older than the window performs a
\* new pass and returns its error, or its snapshot, which it has stored in
\* place of the old one with a new window.
C19_OlderIsRediscovered ==
    \A p \in Callers :
        /\ (Returned(p) /\ prov[p].ok /\ prov[p].apiCalls = 0)
               => (prov[p].sawCached /\ prov[p].sawAge <= FreshnessWindow)
        /\ (Returned(p) /\ prov[p].sawCached /\ prov[p].sawAge > FreshnessWindow)
               => /\ prov[p].apiCalls > 0
                  /\ prov[p].ok
                       => /\ prov[p].value = prov[p].masters
                          /\ cache.present
                          /\ cache.value = prov[p].value
                          /\ hist.at >= prov[p].sawNow
                          /\ cache.expiration = hist.at + FreshnessWindow
                  /\ ~prov[p].ok => (prov[p].value = EmptyMap /\ prov[p].err # "")

C19_Witness ==
    \E p \in Callers :
        /\ Returned(p) /\ prov[p].sawCached /\ prov[p].sawAge > FreshnessWindow
        /\ prov[p].ok
        /\ prov[p].value # prov[p].sawValue

----------------------------------------------------------------------------
(* Properties of concurrent Provide() calls, under SpecConcurrent *)

\* The map a pass builds from the masters it resolved, in order.
RECURSIVE PassMap(_)
PassMap(resolved) ==
    IF resolved = <<>> THEN EmptyMap
    ELSE LET x == resolved[Len(resolved)]
         IN  MapPut(PassMap(SubSeq(resolved, 1, Len(resolved) - 1)), x.name,
                    [Host |-> HostOf(x.r.master), Distribution |-> ZeroDistribution])

\* m is the whole result of the one pass with history (saw, resolved): every
\* qualifying cluster the pass was shown is resolved, and m holds exactly
\* what that pass resolved.
CompletePass(m, saw, resolved) ==
    /\ \A k \in 1..Len(resolved) : resolved[k].r.ok
    /\ {resolved[k].id : k \in 1..Len(resolved)} = {c.id : c \in {d \in saw : HasEngine(d.apps)}}
    /\ m = PassMap(resolved)

\* C12: under concurrent calls every map a caller receives, and the cached
\* one, is the complete result of one successful pass.
C12_OnlyCompleteSnapshots ==
    /\ \A p \in DOMAIN prov :
         (Returned(p) /\ prov[p].ok)
             => CompletePass(prov[p].value, prov[p].saw, prov[p].resolved)
    /\ cache.present => CompletePass(cache.value, hist.saw, hist.resolved)

C12_Witness ==
    \E p, q \in DOMAIN prov :
        /\ p # q
        /\ Returned(p) /\ prov[p].ok /\ prov[p].apiCalls = 0
        /\ Cardinality(DOMAIN prov[p].value) = 2
        /\ prov[q].pc = "resolving" /\ prov[q].i = 2
        /\ prov[q].masters # prov[p].value

InPass(p) == prov[p].pc \in {"listing", "resolving"}

\* C13: concurrent calls that miss the cache do not each run a discovery
\* pass of their own.
C13_OnePassPerMiss ==
    Cardinality({p \in DOMAIN prov : InPass(p)}) <= 1

----------------------------------------------------------------------------
(* Properties of both components, under SpecComponents *)

CountExchanges(x, method, path) ==
    Len(SelectSeq(col.reqs,
            LAMBDA e : e.cluster = x /\ e.x.method = method /\ e.x.path = path))

\* C17: no request is sent twice in a cycle: a Direct cluster gets one GET
\* /v1/cluster and no login, an Authenticated cluster one POST /ui/login and
\* at most one GET /ui/api/stats; and a pass that failed is not started
\* again in the same Provide() call: its failure is the last thing it did.
C17_NoRetry ==
    /\ \A x \in col.scraped :
         /\ col.clusters[x].Distribution = DistDb
              => /\ CountExchanges(x, "GET", "/v1/cluster") = 1
                 /\ Len(ExchangesOf(x)) = 1
         /\ col.clusters[x].Distribution = DistSql
              => /\ CountExchanges(x, "POST", "/ui/login") = 1
                 /\ CountExchanges(x, "GET", "/ui/api/stats") <= 1
                 /\ Len(ExchangesOf(x)) <= 2
    /\ \A p \in DOMAIN prov :
         /\ \A k \in 1..Len(prov[p].resolved) :
              ~prov[p].resolved[k].r.ok
                 => (k = Len(prov[p].resolved) /\ Returned(p) /\ ~prov[p].ok)
         /\ prov[p].failedIn = "list"
              => (Returned(p) /\ ~prov[p].ok /\ prov[p].resolved = <<>>)
         /\ prov[p].apiCalls > 0 => Len(prov[p].resolved) <= Len(prov[p].clusters)

C17_Witness ==
    \E x, y \in col.scraped :
        /\ col.clusters[x].Distribution = DistDb
        /\ ExchangesOf(x)[1].x.resp.neterr
        /\ col.clusters[y].Distribution = DistSql
        /\ Len(ExchangesOf(y)) = 2
        /\ ExchangesOf(y)[2].x.resp.neterr

====
